---- MODULE Spec2Model ----
(***************************************************************************)
(* Model of viam-modules/filtered_camera: the trigger-windowed image       *)
(* buffer (image_buffer/image_buffer.go), the trigger policy (cam.go,      *)
(* filteredCamera.shouldSend) and the pull path (filteredCamera.images)    *)
(* with the background capture worker.                                     *)
(*                                                                         *)
(* Time is counted in whole seconds.  ZeroTime is Go's zero time.Time,     *)
(* every timestamp a camera reports is later than ZeroTime by more than    *)
(* the longest configured window.  Image frequency is counted in quarter   *)
(* Hertz so that 3 * window * frequency is computed exactly.               *)
(***************************************************************************)
EXTENDS Integers, Sequences, FiniteSets, TLC

\* ------------------------------------------------------------------ bounds
\* number of distinct camera timestamps
MaxTime == 3
\* the enqueue audit counter saturates here
EnqCap == 2
\* entries of Config.VisionServices
MaxServices == 2
\* results one vision-service call returns
MaxResults == 2
\* shouldSend evaluations in one run
MaxEvals == 2

\* --------------------------------------------------------------- constants
\* the zero value of time.Time held by captureFrom / captureTill at start
ZeroTime == 0
\* quarter-Hertz units per Hertz used to write image frequencies
FreqScale == 4

WindowChoices == {0, 1, 2}
FrequenciesQ == {1, 2, 4}

MaxOf(S) == CHOOSE x \in S : \A y \in S : y <= x
Min(a, b) == IF a < b THEN a ELSE b
Max(a, b) == IF a > b THEN a ELSE b

\* timestamps the underlying camera can report
Times == {MaxOf(WindowChoices) + i : i \in 1..MaxTime}

VARIABLES
  \* ImageBuffer fields
  ringBuffer, toSend, captureFrom, captureTill,
  windowSecondsBefore, windowSecondsAfter, imageFrequency, maxImages,
  \* Config.WindowSeconds as passed to NewImageBuffer
  windowSeconds,
  \* the value returned by the last pop
  returned,
  \* audit: last operation applied, timestamps stored, triggers applied,
  \* number of times each timestamp was appended to toSend
  lastOp, stored, triggers, enq,
  \* filteredCamera: the vision services and threshold maps built by the
  \* constructor, the statistics, and the shouldSend call in progress
  fc, acceptedStats, rejectedStats, ev,
  \* the images() call in progress, what the last images() call returned,
  \* audit: capture times of the batches shouldSend answered as inhibited
  pull, result, inhibited,
  \* the ImageBuffer mutex, the camera clock, and the goroutines running
  \* captureImageInBackground and images() concurrently
  threads,
  \* the last direct call of classificationMatches / detectionMatches
  probe

bufVars == <<ringBuffer, toSend, captureFrom, captureTill,
             windowSecondsBefore, windowSecondsAfter, imageFrequency,
             maxImages, windowSeconds, returned, lastOp, stored, triggers, enq>>

confVars == <<windowSecondsBefore, windowSecondsAfter, imageFrequency,
              maxImages, windowSeconds>>

policyVars == <<fc, acceptedStats, rejectedStats, ev, probe>>

pullVars == <<pull, result, inhibited, threads>>

vars == <<bufVars, policyVars, pullVars>>

\* ------------------------------------------------------------ data values
\* CachedData{Imgs, Meta}: Imgs is the list of source names, a source name
\* is a sequence of tokens
CachedData(imgs, capturedAt) == [Imgs |-> imgs, Meta |-> [CapturedAt |-> capturedAt]]

\* the batch the camera yields at time t: one image named "cam"
CameraImages == << <<"cam">> >>

CapturedAtOf(q) == [i \in DOMAIN q |-> q[i].Meta.CapturedAt]

TimesIn(q) == {q[i].Meta.CapturedAt : i \in DOMAIN q}

\* ------------------------------------------------------- Config.Validate
\* the window and frequency checks of Config.Validate
ValidWindowConfig(ws, before, after, freqQ) ==
  /\ ~(freqQ < 0)
  /\ ~(ws = 0 /\ before = 0 /\ after = 0)
  /\ ~(ws < 0 \/ before < 0 \/ after < 0)
  /\ ~(ws > 0 /\ (before > 0 \/ after > 0))

\* ------------------------------------------------------- NewImageBuffer
\* int(3 * float64(window) * imageFrequency): truncation toward zero
NewImageBuffer(ws, freqQ, before, after) ==
  IF ws > 0
  THEN [maxImages |-> (3 * ws * freqQ) \div FreqScale,
        windowSecondsBefore |-> ws, windowSecondsAfter |-> ws]
  ELSE [maxImages |-> (3 * (before + after) * freqQ) \div FreqScale,
        windowSecondsBefore |-> before, windowSecondsAfter |-> after]

\* what an operation without a result leaves in `returned`
NoReturn == [ok |-> FALSE, Imgs |-> <<>>, Meta |-> [CapturedAt |-> ZeroTime]]

\* ------------------------------------------------------- MarkShouldSend
\* variant: the left boundary of a fresh window is the trigger time itself
NextCaptureFromAtTrigger(from, till, triggerTime, before) ==
  IF till < triggerTime THEN triggerTime ELSE from

\* lines 71-76: the left boundary is replaced only when the old window ended
\* before the trigger
NextCaptureFrom(from, till, triggerTime, before) ==
  IF till < triggerTime THEN triggerTime - before ELSE from

\* lines 72, 77: the right boundary is always replaced
NextCaptureTill(till, triggerTime, after) == triggerTime + after

\* variant: the lookup set of queued timestamps is not consulted
ImagesToSendNoLookup(rb, ts, from, till) ==
  LET keep(cached) == /\ ~(cached.Meta.CapturedAt < from)
                      /\ ~(cached.Meta.CapturedAt > till)
  IN SelectSeq(rb, keep)

\* variant: the selected entries are sorted by capture time
EarlierBatch(x, y) == x.Meta.CapturedAt < y.Meta.CapturedAt
ImagesToSendSorted(rb, ts, from, till) ==
  LET existingTimes == TimesIn(ts)
      keep(cached) == /\ ~(cached.Meta.CapturedAt < from)
                      /\ ~(cached.Meta.CapturedAt > till)
                      /\ cached.Meta.CapturedAt \notin existingTimes
  IN SortSeq(SelectSeq(rb, keep), EarlierBatch)

\* variant: the ends of the interval are left out
ImagesToSendExclusive(rb, ts, from, till) ==
  LET existingTimes == TimesIn(ts)
      keep(cached) == /\ cached.Meta.CapturedAt > from
                      /\ cached.Meta.CapturedAt < till
                      /\ cached.Meta.CapturedAt \notin existingTimes
  IN SelectSeq(rb, keep)

\* lines 80-96: ring entries inside [from, till] whose timestamp is not in
\* the lookup set built from toSend before the loop
ImagesToSend(rb, ts, from, till) ==
  LET existingTimes == TimesIn(ts)
      keep(cached) == /\ ~(cached.Meta.CapturedAt < from)
                      /\ ~(cached.Meta.CapturedAt > till)
                      /\ cached.Meta.CapturedAt \notin existingTimes
  IN SelectSeq(rb, keep)

\* audit counter update for a sequence of appended batches
Bump(e, q) ==
  [t \in DOMAIN e |->
     Min(EnqCap, e[t] + Cardinality({i \in DOMAIN q : q[i].Meta.CapturedAt = t}))]

\* variant: the batches handed to the send queue leave the ring buffer
MarkShouldSendMoving(triggerTime) ==
  LET from == NextCaptureFrom(captureFrom, captureTill, triggerTime, windowSecondsBefore)
      till == NextCaptureTill(captureTill, triggerTime, windowSecondsAfter)
      imagesToSend == ImagesToSend(ringBuffer, toSend, from, till)
      stays(cached) == cached.Meta.CapturedAt \notin TimesIn(imagesToSend)
  IN /\ captureFrom' = from
     /\ captureTill' = till
     /\ toSend' = toSend \o imagesToSend
     /\ ringBuffer' = SelectSeq(ringBuffer, stays)
     /\ returned' = NoReturn
     /\ lastOp' = [op |-> "MarkShouldSend", t |-> triggerTime,
                   open |-> ~(captureTill < triggerTime)]
     /\ UNCHANGED <<confVars, stored>>

MarkShouldSend(triggerTime) ==
  LET from == NextCaptureFrom(captureFrom, captureTill, triggerTime, windowSecondsBefore)
      till == NextCaptureTill(captureTill, triggerTime, windowSecondsAfter)
      imagesToSend == ImagesToSend(ringBuffer, toSend, from, till)
  IN /\ captureFrom' = from
     /\ captureTill' = till
     /\ toSend' = toSend \o imagesToSend
     /\ returned' = NoReturn
     /\ lastOp' = [op |-> "MarkShouldSend", t |-> triggerTime,
                   open |-> ~(captureTill < triggerTime)]
     /\ UNCHANGED <<ringBuffer, confVars, stored>>

\* ------------------------------------------------------ AddToRingBuffer
\* variant: the slice keeps one entry too many
TrimRingOneMore(rb, max) ==
  IF Len(rb) > max THEN SubSeq(rb, Len(rb) - max, Len(rb)) ELSE rb

\* variant: the slice keeps the oldest entries
TrimRingOldest(rb, max) ==
  IF Len(rb) > max THEN SubSeq(rb, 1, max) ELSE rb

\* lines 126-129 and 311-314: keep the newest max entries
TrimRing(rb, max) ==
  IF Len(rb) > max THEN SubSeq(rb, Len(rb) - max + 1, Len(rb)) ELSE rb

AddToRingBuffer(imgs, capturedAt) ==
  /\ ringBuffer' = TrimRing(Append(ringBuffer, CachedData(imgs, capturedAt)), maxImages)
  /\ stored' = stored \cup {capturedAt}
  /\ returned' = NoReturn
  /\ lastOp' = [op |-> "AddToRingBuffer", t |-> capturedAt, open |-> FALSE]
  /\ UNCHANGED <<toSend, captureFrom, captureTill, confVars>>

\* -------------------------------------------------- IsWithinCaptureWindow
\* line 270
IsWithinCaptureWindow(now) ==
  (now < captureTill /\ now > captureFrom) \/ now = captureTill \/ now = captureFrom

\* ----------------------------------------------------------- StoreImages
\* line 292: the routing condition of StoreImages
StoreInWindow(now, from, till) ==
  (now < till /\ now > from) \/ now = till \/ now = from

\* variant: a send queue longer than the warning threshold loses its oldest
\* batch
StoreImagesDropping(imgs, capturedAt, now) ==
  /\ IF StoreInWindow(now, captureFrom, captureTill)
     THEN /\ toSend' = (IF Len(toSend) + 1 > 2 * maxImages
                        THEN Tail(Append(toSend, CachedData(imgs, capturedAt)))
                        ELSE Append(toSend, CachedData(imgs, capturedAt)))
          /\ UNCHANGED ringBuffer
     ELSE /\ ringBuffer' = TrimRing(Append(ringBuffer, CachedData(imgs, capturedAt)), maxImages)
          /\ UNCHANGED toSend
  /\ stored' = stored \cup {capturedAt}
  /\ lastOp' = [op |-> "StoreImages", t |-> capturedAt,
                open |-> StoreInWindow(now, captureFrom, captureTill)]
  /\ returned' = NoReturn
  /\ UNCHANGED <<captureFrom, captureTill, confVars>>

StoreImages(imgs, capturedAt, now) ==
  /\ IF StoreInWindow(now, captureFrom, captureTill)
     THEN /\ toSend' = Append(toSend, CachedData(imgs, capturedAt))
          /\ UNCHANGED ringBuffer
     ELSE /\ ringBuffer' = TrimRing(Append(ringBuffer, CachedData(imgs, capturedAt)), maxImages)
          /\ UNCHANGED toSend
  /\ stored' = stored \cup {capturedAt}
  /\ lastOp' = [op |-> "StoreImages", t |-> capturedAt,
                open |-> StoreInWindow(now, captureFrom, captureTill)]
  /\ returned' = NoReturn
  /\ UNCHANGED <<captureFrom, captureTill, confVars>>

\* ------------------------------------------------ timestampImagesToNames
\* variant: the source names are returned as they are
KeepNames(images, capturedAt) == images

\* Format(timestampFormat) of a timestamp, "no-date" for the zero time
TimestampStr(capturedAt) == IF capturedAt = ZeroTime THEN "no-date" ELSE capturedAt

\* result[i].SourceName = timestampStr + "_" + img.SourceName
timestampImagesToNames(images, capturedAt) ==
  [i \in DOMAIN images |-> <<TimestampStr(capturedAt), "_">> \o images[i]]

\* ------------------------------------------------------- PopFirstToSend
\* CachedData{}, false / nil, ResponseMetadata{}, false
NoData == [ok |-> FALSE, Imgs |-> <<>>, Meta |-> [CapturedAt |-> ZeroTime]]

PopFirstToSend ==
  /\ IF Len(toSend) = 0
     THEN /\ returned' = NoData
          /\ UNCHANGED toSend
     ELSE LET x == toSend[1]
          IN /\ toSend' = Tail(toSend)
             /\ returned' = [ok |-> TRUE,
                             Imgs |-> timestampImagesToNames(x.Imgs, x.Meta.CapturedAt),
                             Meta |-> x.Meta]
  /\ lastOp' = [op |-> "PopFirstToSend", t |-> ZeroTime, open |-> FALSE]
  /\ UNCHANGED <<ringBuffer, captureFrom, captureTill, confVars, stored>>

\* --------------------------------------------------------- PopAllToSend
\* variant: the batches are taken newest first
AllImagesNewestFirst(q) ==
  [i \in 1..Len(q) |->
     <<TimestampStr(q[Len(q) + 1 - i].Meta.CapturedAt), "_">> \o q[Len(q) + 1 - i].Imgs[1]]

RECURSIVE AllImages(_)
AllImages(q) ==
  IF q = <<>> THEN <<>>
  ELSE timestampImagesToNames(Head(q).Imgs, Head(q).Meta.CapturedAt) \o AllImages(Tail(q))

\* lines 208-219: the metadata of the earliest batch, the first one on ties
RECURSIVE EarliestMeta(_, _, _)
EarliestMeta(q, i, earliest) ==
  IF i > Len(q) THEN earliest
  ELSE EarliestMeta(q, i + 1,
         IF i = 1 \/ q[i].Meta.CapturedAt < earliest.CapturedAt THEN q[i].Meta ELSE earliest)

PopAllToSend ==
  /\ IF Len(toSend) = 0
     THEN /\ returned' = NoData
          /\ UNCHANGED toSend
     ELSE /\ returned' = [ok |-> TRUE, Imgs |-> AllImages(toSend),
                          Meta |-> EarliestMeta(toSend, 1, [CapturedAt |-> ZeroTime])]
          /\ toSend' = <<>>
  /\ lastOp' = [op |-> "PopAllToSend", t |-> ZeroTime, open |-> FALSE]
  /\ UNCHANGED <<ringBuffer, captureFrom, captureTill, confVars, stored>>

\* ============================================================ trigger policy
\* names of the vision services a configuration can refer to
Services == {"v1", "v2"}
\* labels a vision service reports; scores and thresholds in tenths
Labels == {"a", "b"}
Scores == {5, 7, 9}

\* a map[string]float64 is the set of its entries, one per key
EmptyMap == {}
Entry(l, min) == [label |-> l, min |-> min]
Has(m, l) == \E e \in m : e.label = l
Get(m, l) == (CHOOSE e \in m : e.label = l).min
\* a threshold map of the configuration: left out (nil) or given
NilMap == [nil |-> TRUE, map |-> EmptyMap]
Given(m) == [nil |-> FALSE, map |-> m]
ThresholdMaps == {NilMap, Given({Entry("a", 7)})}

VisionServiceConfigs ==
  [Vision : Services, Inhibit : BOOLEAN,
   Classifications : ThresholdMaps, Objects : ThresholdMaps]

SeqsUpTo(S, n) == UNION {[1..k -> S] : k \in 0..n}

\* what one Classifications / Detections call can return
Results == [label : Labels, score : Scores]
Responses == SeqsUpTo(Results, MaxResults)

\* ---------------------------------------------- constructor, cam.go 143-172
NewFilteredCamera ==
  [inhibitors |-> <<>>, otherVisionServices |-> <<>>,
   inhibitedClassifications |-> [v \in Services |-> EmptyMap],
   acceptedClassifications |-> [v \in Services |-> EmptyMap],
   inhibitedObjects |-> [v \in Services |-> EmptyMap],
   acceptedObjects |-> [v \in Services |-> EmptyMap]]

AddVisionService(c, vs) ==
  IF vs.Inhibit
  THEN [c EXCEPT
          !.inhibitors = Append(@, vs.Vision),
          !.inhibitedClassifications[vs.Vision] =
             IF ~vs.Classifications.nil THEN vs.Classifications.map ELSE @,
          !.inhibitedObjects[vs.Vision] =
             IF ~vs.Objects.nil THEN vs.Objects.map ELSE @]
  ELSE [c EXCEPT
          !.otherVisionServices = Append(@, vs.Vision),
          !.acceptedClassifications[vs.Vision] =
             IF ~vs.Classifications.nil THEN vs.Classifications.map ELSE @,
          !.acceptedObjects[vs.Vision] =
             IF ~vs.Objects.nil THEN vs.Objects.map ELSE @]

RECURSIVE Construct(_, _)
Construct(visionServices, c) ==
  IF visionServices = <<>> THEN c
  ELSE Construct(Tail(visionServices), AddVisionService(c, Head(visionServices)))

\* ------------------------------------------------------ imageStats.update
\* the keys update is called with: a label, or the default's text; a key
\* the breakdown map does not hold counts 0
StatKeys == Labels \cup {"no vision services triggered"}
NoStats == [total |-> 0, breakdown |-> [l \in StatKeys |-> 0]]

update(is, visionService) ==
  [total |-> is.total + 1,
   breakdown |->
     IF is.breakdown[visionService] = 0
     THEN [is.breakdown EXCEPT ![visionService] = 1]
     ELSE [is.breakdown EXCEPT ![visionService] = @ + 1]]

\* --------------------------------- classificationMatches, detectionMatches
\* variant: a score equal to the threshold matches too
MatchesAtLeast(thresholds, r) ==
  \/ Has(thresholds, r.label) /\ r.score >= Get(thresholds, r.label)
  \/ Has(thresholds, "*") /\ r.score >= Get(thresholds, "*")

Matches(thresholds, r) ==
  \/ Has(thresholds, r.label) /\ r.score > Get(thresholds, r.label)
  \/ Has(thresholds, "*") /\ r.score > Get(thresholds, "*")

classificationMatches(visionService, c, inhibit) ==
  LET allClassifications ==
        IF inhibit THEN fc.inhibitedClassifications ELSE fc.acceptedClassifications
  IN Matches(allClassifications[visionService], c)

detectionMatches(visionService, d, inhibit) ==
  LET allDetections == IF inhibit THEN fc.inhibitedObjects ELSE fc.acceptedObjects
  IN Matches(allDetections[visionService], d)

NoMatch == [match |-> FALSE, label |-> "nil"]

\* a direct call of one of the two functions and what it returned
NoProbe == [kind |-> "none", visionService |-> "v1", r |-> [label |-> "a", score |-> 0],
            inhibit |-> FALSE, out |-> FALSE]

\* the first result that matches, in the order the service returned them
RECURSIVE anyClassificationsMatch(_, _, _)
anyClassificationsMatch(visionService, cs, inhibit) ==
  IF cs = <<>> THEN NoMatch
  ELSE IF classificationMatches(visionService, Head(cs), inhibit)
       THEN [match |-> TRUE, label |-> Head(cs).label]
       ELSE anyClassificationsMatch(visionService, Tail(cs), inhibit)

RECURSIVE anyDetectionsMatch(_, _, _)
anyDetectionsMatch(visionService, ds, inhibit) ==
  IF ds = <<>> THEN NoMatch
  ELSE IF detectionMatches(visionService, Head(ds), inhibit)
       THEN [match |-> TRUE, label |-> Head(ds).label]
       ELSE anyDetectionsMatch(visionService, Tail(ds), inhibit)

\* ------------------------------------------------------------- shouldSend
\* shouldSend runs from one vision-service call to the next.  A position is
\* the call the loops of lines 450-512 make next: the phase (inhibitors, then
\* the other vision services), the index in that list and the kind of call.
EndPosition == [phase |-> "end", idx |-> 0, kind |-> "cls"]

ServiceAt(phase, idx) ==
  IF phase = "inhibit" THEN fc.inhibitors[idx] ELSE fc.otherVisionServices[idx]

\* variant: every call is made, whatever the threshold maps hold
ConfiguredAlways(phase, idx, kind) == TRUE

\* the guards len(map[vs.Name().Name]) > 0 of lines 451, 466, 483, 498
Configured(phase, idx, kind) ==
  LET name == ServiceAt(phase, idx)
      m == IF phase = "inhibit"
           THEN (IF kind = "cls" THEN fc.inhibitedClassifications[name]
                                 ELSE fc.inhibitedObjects[name])
           ELSE (IF kind = "cls" THEN fc.acceptedClassifications[name]
                                 ELSE fc.acceptedObjects[name])
  IN Cardinality(m) > 0

\* the first call made at or after a position of the two loops
RECURSIVE NextCallFrom(_, _, _)
NextCallFrom(phase, idx, kind) ==
  IF phase = "inhibit" /\ idx > Len(fc.inhibitors) THEN NextCallFrom("accept", 1, "cls")
  ELSE IF phase = "accept" /\ idx > Len(fc.otherVisionServices) THEN EndPosition
  ELSE IF Configured(phase, idx, kind) THEN [phase |-> phase, idx |-> idx, kind |-> kind]
  ELSE IF kind = "cls" THEN NextCallFrom(phase, idx, "det")
  ELSE NextCallFrom(phase, idx + 1, "cls")

\* the position after a call that matched nothing
AfterCall(phase, idx, kind) ==
  IF kind = "cls" THEN NextCallFrom(phase, idx, "det")
  ELSE NextCallFrom(phase, idx + 1, "cls")

\* variant: a match always answers "send"
MatchVerdictSend(inhibit) == "send"

\* lines 462, 477 and 494, 509: the value returned on a match
MatchVerdict(inhibit) == IF inhibit THEN "nosend" ELSE "send"

Idle == [pc |-> "idle", phase |-> "end", idx |-> 0, kind |-> "cls",
         queries |-> <<>>, verdict |-> "none", n |-> 0]

Done(verdict, queries, n) ==
  [pc |-> "done", phase |-> "end", idx |-> 0, kind |-> "cls",
   queries |-> queries, verdict |-> verdict, n |-> n]

\* variant: the default never accepts
DefaultVerdictReject == "nosend"

\* lines 513-520: what shouldSend answers when both loops ended
DefaultVerdict == IF Len(fc.otherVisionServices) = 0 THEN "send" ELSE "nosend"

\* continue at a position: issue its call, or fall out of both loops and
\* take the default of lines 513-520
Proceed(pos, queries, n) ==
  IF pos.phase # "end"
  THEN /\ ev' = [pc |-> "call", phase |-> pos.phase, idx |-> pos.idx, kind |-> pos.kind,
                 queries |-> queries, verdict |-> "none", n |-> n]
       /\ UNCHANGED <<acceptedStats, rejectedStats>>
  ELSE IF DefaultVerdict = "send"
  THEN /\ acceptedStats' = update(acceptedStats, "no vision services triggered")
       /\ ev' = Done("send", queries, n)
       /\ UNCHANGED rejectedStats
  ELSE /\ rejectedStats' = update(rejectedStats, "no vision services triggered")
       /\ ev' = Done("nosend", queries, n)
       /\ UNCHANGED acceptedStats

\* shouldSend is entered: namedImg.Image(ctx) fails or the first call is made
ShouldSendBegin ==
  /\ ev.pc \in {"idle", "done"}
  /\ ev.n < MaxEvals
  /\ \E decoded \in BOOLEAN :
       IF ~decoded
       THEN /\ ev' = Done("error", <<>>, ev.n + 1)
            /\ UNCHANGED <<acceptedStats, rejectedStats>>
       ELSE Proceed(NextCallFrom("inhibit", 1, "cls"), <<>>, ev.n + 1)
  /\ UNCHANGED <<fc, probe, bufVars, pullVars>>

Query(matched, failed) ==
  [phase |-> ev.phase, idx |-> ev.idx, kind |-> ev.kind,
   service |-> ServiceAt(ev.phase, ev.idx), matched |-> matched, failed |-> failed]

\* the pending Classifications / Detections call fails
VisionFails ==
  /\ ev.pc = "call"
  /\ ev' = Done("error", Append(ev.queries, Query(FALSE, TRUE)), ev.n)
  /\ UNCHANGED <<acceptedStats, rejectedStats, fc, probe, bufVars, pullVars>>

\* the pending call returns res: a match ends shouldSend, otherwise the loops
\* go on to the next call or to the default
VisionReturnsFrom(responses) ==
  /\ ev.pc = "call"
  /\ \E res \in responses :
       LET inhibit == ev.phase = "inhibit"
           name == ServiceAt(ev.phase, ev.idx)
           m == IF ev.kind = "cls" THEN anyClassificationsMatch(name, res, inhibit)
                ELSE anyDetectionsMatch(name, res, inhibit)
       IN IF m.match
          THEN /\ ev' = Done(MatchVerdict(inhibit),
                              Append(ev.queries, Query(TRUE, FALSE)), ev.n)
               /\ IF inhibit
                  THEN rejectedStats' = update(rejectedStats, m.label) /\ UNCHANGED acceptedStats
                  ELSE acceptedStats' = update(acceptedStats, m.label) /\ UNCHANGED rejectedStats
          ELSE Proceed(AfterCall(ev.phase, ev.idx, ev.kind),
                       Append(ev.queries, Query(FALSE, FALSE)), ev.n)
  /\ UNCHANGED <<fc, probe, bufVars, pullVars>>

VisionReturns == VisionReturnsFrom(Responses)

\* ------------------------------------------------------------------ Init
InitBuffer ==
  /\ \E ws \in WindowChoices, before \in WindowChoices, after \in WindowChoices,
        freqQ \in FrequenciesQ :
       /\ ValidWindowConfig(ws, before, after, freqQ)
       /\ LET ib == NewImageBuffer(ws, freqQ, before, after)
          IN /\ windowSeconds = ws
             /\ imageFrequency = freqQ
             /\ windowSecondsBefore = ib.windowSecondsBefore
             /\ windowSecondsAfter = ib.windowSecondsAfter
             /\ maxImages = ib.maxImages
  /\ ringBuffer = <<>>
  /\ toSend = <<>>
  /\ captureFrom = ZeroTime
  /\ captureTill = ZeroTime
  /\ returned = NoData
  /\ lastOp = [op |-> "NewImageBuffer", t |-> ZeroTime, open |-> FALSE]
  /\ stored = {}
  /\ triggers = {}
  /\ enq = [t \in Times |-> 0]

\* the configuration the buffer runs are made with: one accepting service
DefaultVisionServices ==
  << [Vision |-> "v1", Inhibit |-> FALSE,
      Classifications |-> Given({Entry("a", 7)}), Objects |-> NilMap] >>

InitCamera(visionServices) ==
  /\ fc = Construct(visionServices, NewFilteredCamera)
  /\ acceptedStats = NoStats
  /\ rejectedStats = NoStats
  /\ ev = Idle
  /\ probe = NoProbe

\* no images() call was made yet
\* marked tells whether the last call that got a batch from the camera
\* carried the data-management context key or the extra flag
NoPull == [pc |-> "idle", t |-> ZeroTime, images |-> <<>>, i |-> 0, single |-> FALSE,
           marked |-> FALSE]
\* nothing was returned yet, or a call is in progress
NoResult == [err |-> "none", Imgs |-> <<>>, Meta |-> [CapturedAt |-> ZeroTime]]

\* the goroutines: the background worker and two callers of images(); each
\* is idle, the mutex is free and the camera clock shows the first time
Worker == "bg"
Consumers == {"c1", "c2"}
Goroutines == {Worker} \cup Consumers
NoThread == [pc |-> "idle", t |-> ZeroTime, single |-> FALSE, inWindow |-> FALSE]
NoThreads ==
  [mu |-> "free", clock |-> MaxOf(WindowChoices) + 1, g |-> [th \in Goroutines |-> NoThread]]

InitPull ==
  /\ pull = NoPull
  /\ result = NoResult
  /\ inhibited = {}
  /\ threads = NoThreads

Init == InitBuffer /\ InitCamera(DefaultVisionServices) /\ InitPull

\* the camera clock: captured_at of successive background captures increases
LaterTimes == {t \in Times : \A s \in stored : s < t}

\* captureImageInBackground: StoreImages(images, meta, meta.CapturedAt)
Store == \E t \in LaterTimes : StoreImages(CameraImages, t, t) /\ UNCHANGED <<triggers, enq, policyVars, pullVars>>

\* conditional camera background capture: AddToRingBuffer(images, meta)
Add == \E t \in LaterTimes : AddToRingBuffer(CameraImages, t) /\ UNCHANGED <<triggers, enq, policyVars, pullVars>>

\* images(): MarkShouldSend(meta.CapturedAt); concurrent pulls apply their
\* capture times in any order
Trigger == \E t \in Times : MarkShouldSend(t) /\ UNCHANGED <<triggers, enq, policyVars, pullVars>>

\* getBufferedImages
Pop == (PopFirstToSend \/ PopAllToSend) /\ UNCHANGED <<triggers, enq, policyVars, pullVars>>

Next == Store \/ Add \/ Trigger \/ Pop

Spec == Init /\ [][Next]_vars

\* --------------------------------------------- capture times in any order
\* AddToRingBuffer takes the capture time its caller hands in: batches reach
\* the ring buffer in any order of their capture times, each time once.
AddAnyTime ==
  /\ \E t \in Times \ stored : AddToRingBuffer(CameraImages, t)
  /\ UNCHANGED <<triggers, enq, policyVars, pullVars>>

NextRing == AddAnyTime \/ Trigger \/ Pop

SpecRing == Init /\ [][NextRing]_vars

\* ------------------------------------------------- paced, audited schedule
\* The background worker stores one batch every period; a single consumer
\* pulls between two background captures, and triggers only with a capture
\* time it found outside the window (images(), lines 390 and 424).  The audit
\* variables record every trigger time and count every append to toSend.

\* time.Duration(1000.0/imageFreq) * time.Millisecond, in seconds
Period == FreqScale \div imageFrequency

\* the batches a step appended to toSend
Appended == SubSeq(toSend', Len(toSend) + 1, Len(toSend'))

StorePaced ==
  \E t \in Times :
    /\ stored # {} => t = MaxOf(stored) + Period
    /\ \A u \in triggers : u <= t
    /\ StoreImages(CameraImages, t, t)
    /\ enq' = Bump(enq, Appended)
    /\ UNCHANGED <<triggers, policyVars, pullVars>>

TriggerPaced ==
  \E t \in Times :
    /\ \A u \in triggers : u <= t
    /\ \A s \in stored : s <= t
    /\ stored # {} => t <= MaxOf(stored) + Period
    /\ ~IsWithinCaptureWindow(t)
    /\ MarkShouldSend(t)
    /\ enq' = Bump(enq, Appended)
    /\ triggers' = triggers \cup {t}
    /\ UNCHANGED <<policyVars, pullVars>>

PopPaced == (PopFirstToSend \/ PopAllToSend) /\ UNCHANGED <<triggers, enq, policyVars, pullVars>>

NextPaced == StorePaced \/ TriggerPaced \/ PopPaced

SpecPaced == Init /\ [][NextPaced]_vars

\* ------------------------------------------------------- trigger policy runs
\* every configuration of up to MaxServices vision services, one buffer
InitPolicy ==
  /\ \E visionServices \in SeqsUpTo(VisionServiceConfigs, MaxServices) :
       InitCamera(visionServices)
  /\ InitBuffer
  /\ InitPull
  /\ windowSeconds = 1
  /\ imageFrequency = FreqScale

NextPolicy == ShouldSendBegin \/ VisionReturns \/ VisionFails

SpecPolicy == InitPolicy /\ [][NextPolicy]_vars

\* ------------------------------------------------------- matching runs
\* classificationMatches and detectionMatches called with every service,
\* result and flag, on every camera the constructor can build
ClassificationProbe ==
  /\ \E visionService \in Services, c \in Results, inhibit \in BOOLEAN :
       probe' = [kind |-> "cls", visionService |-> visionService, r |-> c,
                 inhibit |-> inhibit,
                 out |-> classificationMatches(visionService, c, inhibit)]
  /\ UNCHANGED <<fc, acceptedStats, rejectedStats, ev, bufVars, pullVars>>

DetectionProbe ==
  /\ \E visionService \in Services, d \in Results, inhibit \in BOOLEAN :
       probe' = [kind |-> "det", visionService |-> visionService, r |-> d,
                 inhibit |-> inhibit,
                 out |-> detectionMatches(visionService, d, inhibit)]
  /\ UNCHANGED <<fc, acceptedStats, rejectedStats, ev, bufVars, pullVars>>

NextMatch == ClassificationProbe \/ DetectionProbe

SpecMatch == InitPolicy /\ [][NextMatch]_vars

\* ------------------------------------------------ matching with wildcards
\* threshold maps that hold a "*" entry, next to an exact entry or alone
WildcardMaps ==
  {Given({Entry("a", 9), Entry("*", 5)}), Given({Entry("a", 5), Entry("*", 9)}),
   Given({Entry("*", 7)}), Given({Entry("a", 7)})}

WildcardConfigs ==
  [Vision : {"v1"}, Inhibit : BOOLEAN,
   Classifications : WildcardMaps, Objects : WildcardMaps]

InitWildcard ==
  /\ \E vs \in WildcardConfigs : InitCamera(<<vs>>)
  /\ InitBuffer
  /\ InitPull
  /\ windowSeconds = 1
  /\ imageFrequency = FreqScale

SpecWildcard == InitWildcard /\ [][NextMatch]_vars

\* -------------------------------------------------------- Config.Validate
\* vision_services of a configuration: left out (nil) or a list
NilList == [nil |-> TRUE, list |-> <<>>]
GivenList(l) == [nil |-> FALSE, list |-> l]

\* configurations Validate is called with; "" is a field left out
ServiceEntries == [Vision : Services \cup {""}, Inhibit : BOOLEAN]
WindowValues == {-1, 0, 1}
Configs ==
  [Camera : {"", "cam"}, Vision : {"", "v0"},
   VisionServices :
     {NilList} \cup {GivenList(l) : l \in SeqsUpTo(ServiceEntries, MaxServices)},
   ImageFrequency : {-1, 1},
   WindowSeconds : WindowValues,
   WindowSecondsBefore : WindowValues,
   WindowSecondsAfter : WindowValues]

\* variant: the services are listed in configured order, inhibiting or not
RECURSIVE ValidateServicesInOrder(_, _, _)
ValidateServicesInOrder(visionServices, inhibitors, otherVisionServices) ==
  IF visionServices = <<>>
  THEN [err |-> "nil", inhibitors |-> inhibitors,
        otherVisionServices |-> otherVisionServices]
  ELSE LET vs == Head(visionServices) IN
       IF vs.Vision = ""
       THEN [err |-> "vision is required", inhibitors |-> <<>>,
             otherVisionServices |-> <<>>]
       ELSE ValidateServicesInOrder(Tail(visionServices), inhibitors,
                                    Append(otherVisionServices, vs.Vision))

\* the loop of lines 96-105 over cfg.VisionServices
RECURSIVE ValidateServices(_, _, _)
ValidateServices(visionServices, inhibitors, otherVisionServices) ==
  IF visionServices = <<>>
  THEN [err |-> "nil", inhibitors |-> inhibitors,
        otherVisionServices |-> otherVisionServices]
  ELSE LET vs == Head(visionServices) IN
       IF vs.Vision = ""
       THEN [err |-> "vision is required", inhibitors |-> <<>>,
             otherVisionServices |-> <<>>]
       ELSE IF vs.Inhibit
       THEN ValidateServices(Tail(visionServices),
                             Append(inhibitors, vs.Vision), otherVisionServices)
       ELSE ValidateServices(Tail(visionServices), inhibitors,
                             Append(otherVisionServices, vs.Vision))

\* return nil, nil, err
Rejected(err) == [deps |-> <<>>, err |-> err]

\* Config.Validate: the dependencies and the error
Validate(cfg) ==
  IF cfg.Camera = "" THEN Rejected("camera is required")
  ELSE IF cfg.Vision = "" /\ cfg.VisionServices.nil
  THEN Rejected("vision_services is required")
  ELSE IF cfg.Vision # "" /\ ~cfg.VisionServices.nil
  THEN Rejected("cannot specify both vision and vision_services")
  ELSE IF cfg.ImageFrequency < 0
  THEN Rejected("image_frequency cannot be less than 0")
  ELSE IF cfg.WindowSeconds = 0 /\ cfg.WindowSecondsBefore = 0
          /\ cfg.WindowSecondsAfter = 0
  THEN Rejected("window settings cannot all be zero")
  ELSE IF cfg.WindowSeconds < 0 \/ cfg.WindowSecondsBefore < 0
          \/ cfg.WindowSecondsAfter < 0
  THEN Rejected("window settings cannot be negative")
  ELSE IF cfg.WindowSeconds > 0
          /\ (cfg.WindowSecondsBefore > 0 \/ cfg.WindowSecondsAfter > 0)
  THEN Rejected("window_seconds excludes window_seconds_before and _after")
  ELSE IF cfg.Vision # ""
  THEN [deps |-> <<cfg.Camera, cfg.Vision>>, err |-> "nil"]
  ELSE LET r == ValidateServices(cfg.VisionServices.list, <<>>, <<>>) IN
       IF r.err # "nil" THEN Rejected(r.err)
       ELSE [deps |-> <<cfg.Camera>> \o r.inhibitors \o r.otherVisionServices,
             err |-> "nil"]

\* a configuration is validated once, before a camera is built from it
ValidateConfig ==
  /\ probe = NoProbe
  /\ \E cfg \in Configs :
       LET res == Validate(cfg) IN
       probe' = [kind |-> "validate", cfg |-> cfg,
                 deps |-> res.deps, err |-> res.err]
  /\ UNCHANGED <<fc, acceptedStats, rejectedStats, ev, bufVars, pullVars>>

NextValidate == ValidateConfig

InitValidate ==
  /\ InitCamera(DefaultVisionServices)
  /\ InitBuffer
  /\ InitPull
  /\ windowSeconds = 1
  /\ imageFrequency = FreqScale

SpecValidate == InitValidate /\ [][NextValidate]_vars

\* ------------------------------------------------ filteredCamera.images
\* The background worker and one consumer share the underlying camera, whose
\* capture times never decrease from one call to the next; two calls made
\* during one frame period see the same capture time.  An images() call runs
\* from the camera call to the first vision-service call, from one
\* vision-service call to the next, and from the trigger to the pop.

\* batches the underlying camera returns to a pull: one or two named images
SourceBatches == {CameraImages, << <<"cam">>, <<"cam2">> >>}

\* capture times a pull can see now
PullTimes == {t \in Times : pull.t <= t /\ \A s \in stored : s <= t}
\* capture times the background worker can see now
TickTimes == {t \in LaterTimes : pull.t <= t}

\* variant: every call counts as a data-management call
IsFromDataMgmtAlways(ctxKey, extraFlag) == TRUE

\* IsFromDataMgmt(ctx, extra)
IsFromDataMgmt(ctxKey, extraFlag) ==
  IF ctxKey THEN TRUE
  ELSE IF extraFlag THEN TRUE
  ELSE FALSE

\* getBufferedImages(singleImageMode)
getBufferedImages(singleImageMode) ==
  IF singleImageMode THEN PopFirstToSend ELSE PopAllToSend

\* what images() returns
Returns(err, imgs, capturedAt) ==
  [err |-> err, Imgs |-> imgs, Meta |-> [CapturedAt |-> capturedAt]]

\* variant: an empty queue is answered with an empty list of images
BufferedOrNothing(capturedAt) ==
  IF returned'.ok
  THEN [err |-> "nil", Imgs |-> returned'.Imgs, Meta |-> returned'.Meta]
  ELSE Returns("nil", <<>>, capturedAt)

\* lines 436-441 and 425-431: the popped batch, or ErrNoCaptureToStore
BufferedOrNoCapture(capturedAt) ==
  IF returned'.ok
  THEN [err |-> "nil", Imgs |-> returned'.Imgs, Meta |-> returned'.Meta]
  ELSE Returns("ErrNoCaptureToStore", <<>>, capturedAt)

\* variant: an empty queue is answered with ErrNoCaptureToStore inside the
\* window too
BufferedOrSentinel(images, capturedAt) ==
  IF returned'.ok
  THEN [err |-> "nil", Imgs |-> returned'.Imgs, Meta |-> returned'.Meta]
  ELSE Returns("ErrNoCaptureToStore", <<>>, capturedAt)

\* lines 398-404: the popped batch, or the current images with their names
\* rewritten
BufferedOrCurrent(images, capturedAt) ==
  IF returned'.ok
  THEN [err |-> "nil", Imgs |-> returned'.Imgs, Meta |-> returned'.Meta]
  ELSE Returns("nil", timestampImagesToNames(images, capturedAt), capturedAt)

\* variant: the error of the camera call is not looked at and what the call
\* returned is stored
TickIgnoringError ==
  /\ \E cameraFails \in BOOLEAN :
       IF cameraFails
       THEN /\ lastOp' = [op |-> "captureFailed", t |-> ZeroTime, open |-> FALSE]
            /\ ringBuffer' = TrimRing(Append(ringBuffer, CachedData(<<>>, ZeroTime)),
                                      maxImages)
            /\ UNCHANGED <<toSend, captureFrom, captureTill, confVars, returned, stored>>
       ELSE \E t \in TickTimes : StoreImages(CameraImages, t, t)
  /\ UNCHANGED <<triggers, enq, policyVars, pullVars>>

\* captureImageInBackground with a camera whose capture time is one of
\* times: the camera call fails and nothing is stored, or its batch is stored
TickAt(times) ==
  /\ \E cameraFails \in BOOLEAN :
       IF cameraFails
       THEN /\ lastOp' = [op |-> "captureFailed", t |-> ZeroTime, open |-> FALSE]
            /\ UNCHANGED <<ringBuffer, toSend, captureFrom, captureTill, confVars,
                           returned, stored>>
       ELSE \E t \in times : StoreImages(CameraImages, t, t)
  /\ UNCHANGED <<triggers, enq, policyVars, pullVars>>

Tick == TickAt(TickTimes)

\* images(), lines 378-413: the camera call, the data-management test, the
\* capture-window test
PullBeginAt(times) ==
  /\ pull.pc = "idle"
  /\ \E cameraFails \in BOOLEAN :
       IF cameraFails
       THEN /\ result' = Returns("camera", <<>>, ZeroTime)
            /\ UNCHANGED <<pull, bufVars, inhibited>>
       ELSE \E images \in SourceBatches, t \in times,
               ctxKey \in BOOLEAN, extraFlag \in BOOLEAN :
         IF ~IsFromDataMgmt(ctxKey, extraFlag)
         THEN /\ result' = Returns("nil", images, t)
              /\ pull' = [NoPull EXCEPT !.t = t, !.marked = ctxKey \/ extraFlag]
              /\ UNCHANGED <<bufVars, inhibited>>
         ELSE \E singleImageMode \in BOOLEAN :
           IF IsWithinCaptureWindow(t)
           THEN /\ getBufferedImages(singleImageMode)
                /\ result' = BufferedOrCurrent(images, t)
                /\ pull' = [NoPull EXCEPT !.t = t, !.marked = ctxKey \/ extraFlag]
                /\ UNCHANGED <<triggers, enq, inhibited>>
           ELSE /\ ev.n + Len(images) <= MaxEvals
                /\ pull' = [pc |-> "eval", t |-> t, images |-> images, i |-> 1,
                            single |-> singleImageMode,
                            marked |-> ctxKey \/ extraFlag]
                /\ result' = NoResult
                /\ UNCHANGED <<bufVars, inhibited>>
  /\ UNCHANGED <<policyVars, threads>>

PullBegin == PullBeginAt(PullTimes)

\* in the camera runs a vision-service call returns at most one result
CameraResponses == SeqsUpTo(Results, 1)

VisionAnswers == VisionReturnsFrom(CameraResponses)

\* line 417: shouldSend is called for the image the loop is at
Evaluate ==
  /\ pull.pc = "eval"
  /\ ev.pc = "idle"
  /\ ShouldSendBegin

\* the evaluation that ended was stopped by an inhibitor
Inhibited(e) ==
  /\ e.pc = "done"
  /\ e.verdict = "nosend"
  /\ Len(e.queries) > 0
  /\ e.queries[Len(e.queries)].phase = "inhibit"
  /\ e.queries[Len(e.queries)].matched

\* the evaluation ended because its last vision-service call failed
LastCallFailed(e) ==
  /\ e.pc = "done"
  /\ Len(e.queries) > 0
  /\ e.queries[Len(e.queries)].failed

\* the error shouldSend returned: of a vision-service call, or of decoding
\* the image (line 445)
ErrorOf(e) == IF LastCallFailed(e) THEN "vision" ELSE "image"

\* variant: the error shouldSend returned is not looked at
FailedIgnored(e) == FALSE

\* line 418: err != nil
Failed(e) == e.verdict = "error"

\* lines 417-441: shouldSend returned
PullVerdict ==
  /\ pull.pc = "eval"
  /\ ev.pc = "done"
  /\ ev' = [Idle EXCEPT !.n = ev.n]
  /\ inhibited' = IF Inhibited(ev) THEN inhibited \cup {pull.t} ELSE inhibited
  /\ IF Failed(ev)
     THEN /\ result' = Returns(ErrorOf(ev), <<>>, pull.t)
          /\ pull' = [pull EXCEPT !.pc = "idle", !.images = <<>>, !.i = 0, !.single = FALSE]
          /\ UNCHANGED bufVars
     ELSE IF ev.verdict = "send"
     THEN /\ MarkShouldSend(pull.t)
          /\ pull' = [pull EXCEPT !.pc = "pop"]
          /\ UNCHANGED <<triggers, enq, result>>
     ELSE IF pull.i < Len(pull.images)
     THEN /\ pull' = [pull EXCEPT !.i = @ + 1]
          /\ UNCHANGED <<bufVars, result>>
     ELSE /\ getBufferedImages(pull.single)
          /\ result' = BufferedOrNoCapture(pull.t)
          /\ pull' = [pull EXCEPT !.pc = "idle", !.images = <<>>, !.i = 0, !.single = FALSE]
          /\ UNCHANGED <<triggers, enq>>
  /\ UNCHANGED <<fc, probe, acceptedStats, rejectedStats, threads>>

\* variant: after the trigger an empty queue is answered with the images
\* that triggered
PullPopOrCurrent ==
  /\ pull.pc = "pop"
  /\ getBufferedImages(pull.single)
  /\ result' = BufferedOrCurrent(pull.images, pull.t)
  /\ pull' = [pull EXCEPT !.pc = "idle", !.images = <<>>, !.i = 0, !.single = FALSE]
  /\ UNCHANGED <<triggers, enq, inhibited, policyVars, threads>>

\* lines 425-431: after the trigger, the buffered images or ErrNoCaptureToStore
PullPop ==
  /\ pull.pc = "pop"
  /\ getBufferedImages(pull.single)
  /\ result' = BufferedOrNoCapture(pull.t)
  /\ pull' = [pull EXCEPT !.pc = "idle", !.images = <<>>, !.i = 0, !.single = FALSE]
  /\ UNCHANGED <<triggers, enq, inhibited, policyVars, threads>>

\* vision service lists the camera runs are made with
Inhibitor ==
  [Vision |-> "v1", Inhibit |-> TRUE,
   Classifications |-> Given({Entry("a", 7)}), Objects |-> NilMap]
Acceptor ==
  [Vision |-> "v2", Inhibit |-> FALSE,
   Classifications |-> NilMap, Objects |-> Given({Entry("a", 7)})]
BareAcceptor ==
  [Vision |-> "v2", Inhibit |-> FALSE,
   Classifications |-> NilMap, Objects |-> Given(EmptyMap)]
CameraConfigs ==
  {<<Inhibitor, Acceptor>>, <<Inhibitor>>, <<BareAcceptor>>, <<Inhibitor, BareAcceptor>>}

InitCameraRun ==
  /\ \E visionServices \in CameraConfigs : InitCamera(visionServices)
  /\ InitBuffer
  /\ InitPull
  /\ imageFrequency = FreqScale
  /\ windowSeconds = 0
  /\ windowSecondsBefore = 1
  /\ windowSecondsAfter = 0

NextCamera ==
  Tick \/ PullBegin \/ Evaluate \/ VisionAnswers \/ VisionFails \/ PullVerdict \/ PullPop

SpecCamera == InitCameraRun /\ [][NextCamera]_vars

\* ------------------------------------------- camera without capture times
\* The underlying camera leaves meta.CapturedAt unset: the background worker
\* and the pulls see the zero time.
MaxUnstamped == 3

TickUnstamped == Len(toSend) + Len(ringBuffer) < MaxUnstamped /\ TickAt({ZeroTime})

PullBeginUnstamped == PullBeginAt({ZeroTime})

NextUnstamped == TickUnstamped \/ PullBeginUnstamped

SpecUnstamped == InitCameraRun /\ [][NextUnstamped]_vars

\* ------------------------------------------------- concurrent goroutines
\* The background worker and two callers of images() run concurrently.  Each
\* ImageBuffer method locks ib.mu on entry and unlocks it when it returns
\* (defer); a goroutine is at the Lock() of a method, inside the method, or in
\* code of cam.go that holds no lock.  The verdict of shouldSend is drawn from
\* its three outcomes.  A failed camera call of the worker changes nothing.

Th(th) == threads.g[th]

\* pc of a goroutine blocked at ib.mu.Lock() of a method, and inside it
AtLock == {"store", "check", "mark", "pop"}
InsideOf(pc) ==
  CASE pc = "store" -> "storing"
    [] pc = "check" -> "checking"
    [] pc = "mark" -> "marking"
    [] pc = "pop" -> "popping"
Inside == {InsideOf(pc) : pc \in AtLock}

\* what a goroutine leaves alone besides the buffer and its own record
Quiet == UNCHANGED <<policyVars, pull, inhibited, triggers, enq>>
Elsewhere == Quiet /\ UNCHANGED result

\* variant: Lock returns although another goroutine holds the mutex
LockWithoutWaiting(th) ==
  /\ Th(th).pc \in AtLock
  /\ threads' = [threads EXCEPT !.mu = th, !.g[th].pc = InsideOf(@)]
  /\ UNCHANGED bufVars
  /\ Elsewhere

\* ib.mu.Lock()
Lock(th) ==
  /\ Th(th).pc \in AtLock
  /\ threads.mu = "free"
  /\ threads' = [threads EXCEPT !.mu = th, !.g[th].pc = InsideOf(@)]
  /\ UNCHANGED bufVars
  /\ Elsewhere

\* the period of the worker's ticker, in seconds
TickerPeriod == FreqScale \div imageFrequency

\* whether the ticker fires at an instant: one period after the last
\* capture; the first tick falls anywhere within the first period
TickerFires(t) ==
  IF stored = {} THEN (IF TickerPeriod > 1 THEN BOOLEAN ELSE {TRUE})
  ELSE {\A s \in stored : t - s >= TickerPeriod}

\* the next instant: when the ticker fires, captureImageInBackground calls
\* fc.cam.Images, which returns the frame of that instant
WorkerCamera ==
  /\ Th(Worker).pc = "idle"
  /\ threads.clock < MaxOf(Times)
  /\ \E fires \in TickerFires(threads.clock + 1) :
       threads' = IF fires
                  THEN [threads EXCEPT !.clock = @ + 1,
                                       !.g[Worker].pc = "store",
                                       !.g[Worker].t = threads.clock + 1]
                  ELSE [threads EXCEPT !.clock = @ + 1]
  /\ UNCHANGED bufVars
  /\ Elsewhere

\* captureImageInBackground: the body of StoreImages and its deferred Unlock
WorkerStore ==
  /\ Th(Worker).pc = "storing" /\ threads.mu = Worker
  /\ StoreImages(CameraImages, Th(Worker).t, Th(Worker).t)
  /\ threads' = [threads EXCEPT !.mu = "free", !.g[Worker] = NoThread]
  /\ Elsewhere

\* images(), lines 380-387: the camera call and the data-management test; a
\* call that fails or is not from data management returns at once and leaves
\* every variable as it is
ConsumerCamera(c, modes) ==
  /\ Th(c).pc = "idle"
  /\ \E singleImageMode \in modes :
       threads' = [threads EXCEPT
                     !.g[c] = [pc |-> "check", t |-> threads.clock,
                               single |-> singleImageMode, inWindow |-> FALSE]]
  /\ UNCHANGED bufVars
  /\ Elsewhere

\* images(), line 390: the body of IsWithinCaptureWindow and its Unlock
CheckWindow(c) ==
  /\ Th(c).pc = "checking" /\ threads.mu = c
  /\ threads' = [threads EXCEPT
                   !.mu = "free",
                   !.g[c].inWindow = IsWithinCaptureWindow(Th(c).t),
                   !.g[c].pc = IF IsWithinCaptureWindow(Th(c).t) THEN "pop" ELSE "eval"]
  /\ UNCHANGED bufVars
  /\ Elsewhere

\* images(), lines 415-420: shouldSend with its vision-service calls
ShouldSend(c, verdicts) ==
  /\ Th(c).pc = "eval"
  /\ \E verdict \in verdicts :
       CASE verdict = "send" ->
              /\ threads' = [threads EXCEPT !.g[c].pc = "mark"]
              /\ UNCHANGED result
         [] verdict = "nosend" ->
              /\ threads' = [threads EXCEPT !.g[c].pc = "pop"]
              /\ UNCHANGED result
         [] verdict = "error" ->
              /\ threads' = [threads EXCEPT !.g[c] = NoThread]
              /\ result' = Returns("vision", <<>>, ZeroTime)
  /\ UNCHANGED bufVars
  /\ Quiet

Verdicts == {"send", "nosend", "error"}

\* variant: MarkShouldSend returns without releasing the mutex
MarkHoldingLock(c) ==
  /\ Th(c).pc = "marking" /\ threads.mu = c
  /\ MarkShouldSend(Th(c).t)
  /\ threads' = [threads EXCEPT !.g[c].pc = "pop"]
  /\ Elsewhere

\* images(), line 424: the body of MarkShouldSend and its Unlock
Mark(c) ==
  /\ Th(c).pc = "marking" /\ threads.mu = c
  /\ MarkShouldSend(Th(c).t)
  /\ threads' = [threads EXCEPT !.mu = "free", !.g[c].pc = "pop"]
  /\ Elsewhere

\* getBufferedImages: the body of PopFirstToSend or PopAllToSend and its
\* Unlock; images() returns what the pop returned, or the current images
\* inside the window, or ErrNoCaptureToStore
PopStepThen(c, after) ==
  /\ Th(c).pc = "popping" /\ threads.mu = c
  /\ getBufferedImages(Th(c).single)
  /\ result' = IF Th(c).inWindow
               THEN BufferedOrCurrent(CameraImages, Th(c).t)
               ELSE BufferedOrNoCapture(Th(c).t)
  /\ threads' = [after EXCEPT !.mu = "free", !.g[c] = NoThread]
  /\ Quiet

PopStep(c) == PopStepThen(c, threads)

InitThreads ==
  /\ InitCamera(DefaultVisionServices)
  /\ InitBuffer
  /\ InitPull
  /\ imageFrequency = FreqScale
  /\ windowSeconds = 0
  /\ windowSecondsBefore = 1
  /\ windowSecondsAfter = 0

NextThreads ==
  \/ WorkerCamera
  \/ WorkerStore
  \/ \E th \in Goroutines : Lock(th)
  \/ \E c \in Consumers :
       \/ ConsumerCamera(c, BOOLEAN)
       \/ CheckWindow(c)
       \/ ShouldSend(c, Verdicts)
       \/ Mark(c)
       \/ PopStep(c)

SpecThreads == InitThreads /\ [][NextThreads]_vars

\* ------------------------------------- which caller received which batch
\* audit: threads.got[c] holds the capture times of the queued batches the
\* calls of consumer c have returned
PopStepSeen(c) ==
  PopStepThen(c, [threads EXCEPT
                    !.got[c] = @ \cup {toSend[i].Meta.CapturedAt :
                                         i \in 1..(Len(toSend) - Len(toSend'))}])

InitConsumers ==
  /\ InitCamera(DefaultVisionServices)
  /\ InitBuffer
  /\ pull = NoPull
  /\ result = NoResult
  /\ inhibited = {}
  /\ threads = [mu |-> NoThreads.mu, clock |-> NoThreads.clock, g |-> NoThreads.g,
                got |-> [c \in Consumers |-> {}]]
  /\ imageFrequency = FreqScale
  /\ windowSeconds = 0
  /\ windowSecondsBefore = 1
  /\ windowSecondsAfter = 0

NextConsumers ==
  \/ WorkerCamera
  \/ WorkerStore
  \/ \E th \in Goroutines : Lock(th)
  \/ \E c \in Consumers :
       \/ ConsumerCamera(c, BOOLEAN)
       \/ CheckWindow(c)
       \/ ShouldSend(c, {"send", "nosend"})
       \/ Mark(c)
       \/ PopStepSeen(c)

SpecConsumers == InitConsumers /\ [][NextConsumers]_vars

\* ------------------------- pulls that keep occurring and whose calls succeed
\* image_frequency 1 Hz (maxImages = 3) and 0.25 Hz (maxImages = 0, every
\* queued batch exceeds the warning threshold)
DeliveryFrequenciesQ == {1, FreqScale}

InitDelivery ==
  /\ InitCamera(DefaultVisionServices)
  /\ InitBuffer
  /\ InitPull
  /\ imageFrequency \in DeliveryFrequenciesQ
  /\ windowSeconds = 0
  /\ windowSecondsBefore = 1
  /\ windowSecondsAfter = 0

\* one consumer pulls through Image (single mode), the other through Images
ModesOf(c) == {c = "c1"}

\* the steps of a pull outside ib.mu.Lock() when no call fails
Pulling(c) ==
  \/ ConsumerCamera(c, ModesOf(c))
  \/ CheckWindow(c)
  \/ ShouldSend(c, {"send", "nosend"})
  \/ Mark(c)
  \/ PopStep(c)

NextDelivery ==
  \/ WorkerCamera
  \/ WorkerStore
  \/ \E th \in Goroutines : Lock(th)
  \/ \E c \in Consumers : Pulling(c)

\* every goroutine that can run is scheduled, data management calls each
\* consumer again and again, and a goroutine waiting in ib.mu.Lock() gets
\* the mutex (sync.Mutex hands the lock to a starving waiter)
FairDelivery ==
  /\ WF_vars(WorkerStore)
  /\ \A th \in Goroutines : SF_vars(Lock(th))
  /\ \A c \in Consumers : WF_vars(Pulling(c))

SpecDelivery == InitDelivery /\ [][NextDelivery]_vars /\ FairDelivery

\* ------------------------------ imageStats.update called by concurrent pulls
\* shouldSend runs outside every lock and imageStats has none: is.total++
\* and the writes of is.breakdown are a load and a store each, and the
\* goroutines running shouldSend interleave between them.
\* A goroutine's evaluation: the statistics it updates, the key it passes,
\* and the value it loaded last
NoUpdate == [pc |-> "idle", accepts |-> FALSE, key |-> "no vision services triggered",
             reg |-> 0]

StatsOf(c) == IF Th(c).accepts THEN acceptedStats ELSE rejectedStats

\* what a step of update writes back
WriteStats(c, is) ==
  IF Th(c).accepts
  THEN acceptedStats' = is /\ UNCHANGED rejectedStats
  ELSE rejectedStats' = is /\ UNCHANGED acceptedStats

StatsElsewhere == UNCHANGED <<bufVars, fc, ev, probe, pull, result, inhibited, triggers, enq>>

\* shouldSend reaches one of its calls of update (cam.go 461, 476, 493, 508,
\* 514, 518) without an error
EvalDecides(c) ==
  /\ Th(c).pc = "idle"
  /\ threads.evals + Cardinality({d \in Consumers : Th(d).pc # "idle"}) < MaxEvals
  /\ \E accepts \in BOOLEAN, key \in StatKeys :
       threads' = [threads EXCEPT
                     !.g[c] = [pc |-> "loadTotal", accepts |-> accepts,
                               key |-> key, reg |-> 0]]
  /\ UNCHANGED <<acceptedStats, rejectedStats>>
  /\ StatsElsewhere

\* is.total++ : the load
LoadTotal(c) ==
  /\ Th(c).pc = "loadTotal"
  /\ threads' = [threads EXCEPT !.g[c].pc = "storeTotal",
                                !.g[c].reg = StatsOf(c).total]
  /\ UNCHANGED <<acceptedStats, rejectedStats>>
  /\ StatsElsewhere

\* is.total++ : the store
StoreTotal(c) ==
  /\ Th(c).pc = "storeTotal"
  /\ WriteStats(c, [StatsOf(c) EXCEPT !.total = Th(c).reg + 1])
  /\ threads' = [threads EXCEPT !.g[c].pc = "loadKey", !.g[c].reg = 0]
  /\ StatsElsewhere

\* the lookup is.breakdown[visionService]
LoadKey(c) ==
  /\ Th(c).pc = "loadKey"
  /\ threads' = [threads EXCEPT !.g[c].pc = "storeKey",
                                !.g[c].reg = StatsOf(c).breakdown[Th(c).key]]
  /\ UNCHANGED <<acceptedStats, rejectedStats>>
  /\ StatsElsewhere

\* is.breakdown[visionService] = 1, or is.breakdown[visionService]++ with
\* the value looked up; update and shouldSend return
StoreKey(c) ==
  /\ Th(c).pc = "storeKey"
  /\ WriteStats(c, [StatsOf(c) EXCEPT
                      !.breakdown[Th(c).key] = IF Th(c).reg = 0 THEN 1
                                               ELSE Th(c).reg + 1])
  /\ threads' = [threads EXCEPT !.evals = @ + 1, !.g[c] = NoUpdate]
  /\ StatsElsewhere

InitStats ==
  /\ InitCamera(DefaultVisionServices)
  /\ InitBuffer
  /\ pull = NoPull
  /\ result = NoResult
  /\ inhibited = {}
  /\ threads = [mu |-> "free", evals |-> 0, g |-> [c \in Consumers |-> NoUpdate]]
  /\ imageFrequency = FreqScale
  /\ windowSeconds = 0
  /\ windowSecondsBefore = 1
  /\ windowSecondsAfter = 0

NextStats ==
  \E c \in Consumers :
    \/ EvalDecides(c)
    \/ LoadTotal(c)
    \/ StoreTotal(c)
    \/ LoadKey(c)
    \/ StoreKey(c)

SpecStats == InitStats /\ [][NextStats]_vars

\* =================================================================== claims

IsMark(op) == op.op = "MarkShouldSend"
IsStore(op) == op.op = "StoreImages"

\* C1: the send queue never holds two batches with the same captured_at,
\* whatever the interleaving of stores with increasing captured_at, triggers
\* and pops.
C1_NoDuplicateInToSend ==
  \A i, j \in DOMAIN toSend :
    i # j => toSend[i].Meta.CapturedAt # toSend[j].Meta.CapturedAt

\* a trigger arrived while the ring buffer still held a batch that sat in the
\* send queue already, next to another queued batch
C1_Witness ==
  /\ IsMark(lastOp)
  /\ Len(toSend) >= 2
  /\ \E i \in DOMAIN ringBuffer, j \in DOMAIN toSend :
       /\ j < Len(toSend)
       /\ ringBuffer[i].Meta.CapturedAt = toSend[j].Meta.CapturedAt
       /\ captureFrom <= ringBuffer[i].Meta.CapturedAt
       /\ ringBuffer[i].Meta.CapturedAt <= captureTill

\* C2: over the whole run every batch is appended to the send queue at most
\* once, also when a later trigger's window overlaps an earlier one whose
\* batches were already popped.
C2_EnqueuedAtMostOnce == \A t \in Times : enq[t] <= 1

\* C3: the send queue is in non-decreasing captured_at order in every
\* reachable state.
C3_ToSendChronological ==
  \A i, j \in DOMAIN toSend :
    i < j => toSend[i].Meta.CapturedAt <= toSend[j].Meta.CapturedAt

\* C4: for every applied trigger t, every batch stored with captured_at in
\* [t - before, t + after] has been appended to the send queue, when batches
\* are stored at the configured image frequency.
C4_ContextPreserved ==
  \A t \in triggers, s \in stored :
    (t - windowSecondsBefore <= s /\ s <= t + windowSecondsAfter) => enq[s] >= 1

\* C5: a trigger at t with no active window (captureTill earlier than t)
\* leaves captureFrom = t - before and captureTill = t + after, and a
\* symmetric window_seconds = W makes before = after = W.
C5_WindowOpen ==
  /\ [](windowSeconds > 0 =>
          windowSecondsBefore = windowSeconds /\ windowSecondsAfter = windowSeconds)
  /\ [][(IsMark(lastOp') /\ captureTill < lastOp'.t) =>
          /\ captureFrom' = lastOp'.t - windowSecondsBefore
          /\ captureTill' = lastOp'.t + windowSecondsAfter]_vars

\* a trigger opened a fresh window after an earlier window had closed
C5_Witness ==
  /\ IsMark(lastOp)
  /\ ~lastOp.open
  /\ Cardinality(TimesIn(toSend)) >= 1
  /\ captureFrom = lastOp.t - windowSecondsBefore
  /\ captureTill = lastOp.t + windowSecondsAfter
  /\ windowSecondsBefore > 0

\* C6: a trigger at t2 <= captureTill leaves captureFrom unchanged and sets
\* captureTill to max(old captureTill, t2 + after), for any order of trigger
\* times.
C6_WindowExtend ==
  [][(IsMark(lastOp') /\ lastOp'.t <= captureTill) =>
        /\ captureFrom' = captureFrom
        /\ captureTill' = Max(captureTill, lastOp'.t + windowSecondsAfter)]_vars

\* C7: captureFrom <= captureTill in every reachable state.
C7_WindowInvariant == captureFrom <= captureTill

\* C8: the ring buffer never holds more than maxImages batches, also when
\* maxImages is 0.
C8_RingBounded == Len(ringBuffer) <= maxImages

\* with no window ever opened, more batches were stored than the ring holds
\* and the ring is full
C8_Witness ==
  /\ lastOp.op \in {"StoreImages", "AddToRingBuffer"}
  /\ captureTill = ZeroTime
  /\ maxImages > 0
  /\ Len(ringBuffer) = maxImages
  /\ Cardinality(stored) > maxImages

\* C9: StoreImages(batch, now) appends the batch to the send queue and leaves
\* the ring buffer alone when now is inside the window, otherwise it appends
\* the batch to the ring buffer and leaves the send queue alone; the batch is
\* in exactly one of the two afterwards and the window bounds do not change.
C9_StoreRouting ==
  [][IsStore(lastOp') =>
       LET batch == CachedData(CameraImages, lastOp'.t)
           inRing == \E i \in DOMAIN ringBuffer' : ringBuffer'[i] = batch
           inSend == \E i \in DOMAIN toSend' : toSend'[i] = batch
       IN /\ captureFrom' = captureFrom
          /\ captureTill' = captureTill
          /\ inRing # inSend
          /\ IF IsWithinCaptureWindow(lastOp'.t)
             THEN toSend' = Append(toSend, batch) /\ ringBuffer' = ringBuffer
             ELSE /\ toSend' = toSend
                  /\ \E k \in 0..Len(ringBuffer) :
                       ringBuffer' = SubSeq(ringBuffer, k + 1, Len(ringBuffer)) \o <<batch>>]_vars

\* the calls shouldSend makes when nothing matches and nothing fails: for
\* each service of a list, Classifications when its classification map has
\* entries, then Detections when its object map has entries
HasEntries(m) == m # {}
InhibitorCalls ==
  {<<k, "cls">> : k \in {i \in DOMAIN fc.inhibitors :
                          HasEntries(fc.inhibitedClassifications[fc.inhibitors[i]])}}
  \cup
  {<<k, "det">> : k \in {i \in DOMAIN fc.inhibitors :
                          HasEntries(fc.inhibitedObjects[fc.inhibitors[i]])}}

\* C10: shouldSend queries the inhibitors before the acceptors, each list in
\* configured order; the first inhibitor result that matches ends the
\* evaluation with the verdict "do not send", no later inhibitor and no
\* acceptor is queried, whatever an acceptor would answer for the frame.
C10_InhibitPriority ==
  LET q == ev.queries
  IN /\ \A i, j \in DOMAIN q :
          i < j => /\ q[i].phase = "accept" => q[j].phase = "accept"
                   /\ q[i].phase = q[j].phase => q[i].idx <= q[j].idx
     /\ \A i \in DOMAIN q :
          (q[i].phase = "inhibit" /\ q[i].matched) =>
             /\ i = Len(q)
             /\ ev.pc = "done"
             /\ ev.verdict = "nosend"
     /\ \A i \in DOMAIN q :
          q[i].phase = "accept" =>
             \A c \in InhibitorCalls :
               \E j \in 1..(i - 1) :
                 /\ q[j].phase = "inhibit" /\ q[j].idx = c[1] /\ q[j].kind = c[2]
                 /\ ~q[j].matched
     /\ ev.verdict = "send" =>
          \A c \in InhibitorCalls :
            \E j \in DOMAIN q :
              /\ q[j].phase = "inhibit" /\ q[j].idx = c[1] /\ q[j].kind = c[2]
              /\ ~q[j].matched

\* the detector that inhibits is also an acceptor with the same thresholds:
\* its detections matched as inhibitor after its classifications had not,
\* and the evaluation ended there although the acceptor matches them too
C10_Witness ==
  /\ ev.pc = "done"
  /\ ev.verdict = "nosend"
  /\ Len(ev.queries) = 2
  /\ LET last == ev.queries[Len(ev.queries)]
     IN /\ last.phase = "inhibit" /\ last.kind = "det" /\ last.matched
        /\ Len(fc.otherVisionServices) = 1
        /\ fc.otherVisionServices[1] = last.service
        /\ fc.acceptedObjects[last.service] = fc.inhibitedObjects[last.service]
        /\ HasEntries(fc.acceptedObjects[last.service])

\* capture times of the batches an images() result delivers under rewritten
\* names "<timestamp>_<name>"
DeliveredTimes(r) ==
  {r.Imgs[i][1] : i \in {j \in DOMAIN r.Imgs : Len(r.Imgs[j]) > 1}}

\* C11: a batch whose evaluation ended with an inhibitor match is never in
\* the send queue and never among the images a data-management pull returns,
\* in any later state.
C11_InhibitedNeverSent ==
  \A t \in inhibited :
    /\ t \notin TimesIn(toSend)
    /\ t \notin DeliveredTimes(result)

\* the threshold map the probed call reads
ProbedMap ==
  IF probe.kind = "cls"
  THEN (IF probe.inhibit THEN fc.inhibitedClassifications[probe.visionService]
                         ELSE fc.acceptedClassifications[probe.visionService])
  ELSE (IF probe.inhibit THEN fc.inhibitedObjects[probe.visionService]
                         ELSE fc.acceptedObjects[probe.visionService])

\* the entries of that map that apply to the probed result
ProbedEntries == {e \in ProbedMap : e.label = probe.r.label \/ e.label = "*"}

C13_MeetOrExceed ==
  probe.kind # "none" =>
    ((\E e \in ProbedEntries : probe.r.score >= e.min) => probe.out)

\* some logged call of the phase matched
AnyMatch(phase) ==
  \E i \in DOMAIN ev.queries : ev.queries[i].phase = phase /\ ev.queries[i].matched

\* C14: an evaluation that ends without an error accepts the frame when no
\* accepting service is configured and no inhibitor matched, and does not
\* accept it when at least one accepting service is configured and none of
\* them matched.
C14_DefaultAccept ==
  (ev.pc = "done" /\ ev.verdict # "error") =>
    /\ (Len(fc.otherVisionServices) = 0 /\ ~AnyMatch("inhibit")) => ev.verdict = "send"
    /\ (Len(fc.otherVisionServices) > 0 /\ ~AnyMatch("accept")) => ev.verdict = "nosend"

\* only inhibitors are configured, one was queried and did not match, and
\* the frame is accepted
C14_Witness ==
  /\ ev.pc = "done"
  /\ Len(fc.otherVisionServices) = 0
  /\ Len(ev.queries) > 0
  /\ ~AnyMatch("inhibit")
  /\ ev.verdict = "send"

\* at least one accepting service is configured and every accepting service
\* has no classification and no object thresholds
OnlyBareAcceptors ==
  /\ Len(fc.otherVisionServices) > 0
  /\ \A k \in DOMAIN fc.otherVisionServices :
       /\ fc.acceptedClassifications[fc.otherVisionServices[k]] = EmptyMap
       /\ fc.acceptedObjects[fc.otherVisionServices[k]] = EmptyMap

\* C15: when every configured accepting service has empty threshold maps, no
\* evaluation accepts a frame, no accepting service is queried, the capture
\* window stays unopened and nothing reaches the send queue.
C15_BareAcceptorNeverTriggers ==
  OnlyBareAcceptors =>
    /\ ev.verdict # "send"
    /\ \A i \in DOMAIN ev.queries : ev.queries[i].phase # "accept"
    /\ captureFrom = ZeroTime /\ captureTill = ZeroTime
    /\ toSend = <<>>
    /\ acceptedStats.total = 0

\* an inhibitor and a bare acceptor: a stored batch, a pull whose evaluation
\* passed the inhibitor and was rejected by default, nothing to deliver
C15_Witness ==
  /\ OnlyBareAcceptors
  /\ Len(fc.inhibitors) > 0
  /\ ringBuffer # <<>>
  /\ rejectedStats.breakdown["no vision services triggered"] > 0
  /\ result.err = "ErrNoCaptureToStore"

\* a step of the images() call, as opposed to one of the background worker
PullStep == pull' # pull \/ ev' # ev \/ result' # result

BufferUnchanged == UNCHANGED <<ringBuffer, toSend, captureFrom, captureTill>>

\* C16: no step of a pull changes ring buffer, send queue or window before
\* its shouldSend returns, and when a vision-service call of the pull failed
\* the next step of the pull returns the error, with ring buffer, send queue
\* and window unchanged: no trigger is applied and nothing is popped.
C16_PredicateFailure ==
  [][ /\ (PullStep /\ pull'.pc = "eval") => BufferUnchanged
      /\ (PullStep /\ pull.pc = "eval" /\ LastCallFailed(ev)) =>
            /\ result'.err = "vision"
            /\ result'.Imgs = <<>>
            /\ pull'.pc = "idle"
            /\ BufferUnchanged ]_vars

\* a pull found a queued batch and a stored batch and returned the error of
\* its vision-service call
C16_Witness ==
  /\ result.err = "vision"
  /\ pull.pc = "idle"
  /\ toSend # <<>>
  /\ ringBuffer # <<>>
  /\ \E l \in StatKeys : acceptedStats.breakdown[l] > 0

\* C17: a background tick whose camera call fails stores nothing, a pull
\* whose camera call fails returns the camera's error and evaluates nothing;
\* both leave ring buffer, send queue and window unchanged.
C17_SourceFailure ==
  [][ /\ (lastOp'.op = "captureFailed" /\ lastOp' # lastOp) =>
            /\ BufferUnchanged
            /\ stored' = stored
      /\ (result'.err = "camera" /\ result' # result) =>
            /\ BufferUnchanged
            /\ pull'.pc = "idle"
            /\ UNCHANGED <<ev, acceptedStats, rejectedStats>> ]_vars

\* with batches in the ring buffer and in the send queue, a pull and then a
\* background tick found the camera failing
C17_Witness ==
  /\ lastOp.op = "captureFailed"
  /\ result.err = "camera"
  /\ ringBuffer # <<>>
  /\ toSend # <<>>

\* C18: a pull made with neither the data-management context key nor the
\* extra flag returns the batch and the capture time the underlying camera
\* gave it, with the source names as they were, makes no call of shouldSend
\* and leaves ring buffer, send queue, window and statistics unchanged.
C18_NonDataMgmtBypass ==
  [][ (PullStep /\ pull.pc = "idle" /\ ~pull'.marked /\ result'.err # "camera") =>
        /\ result'.err = "nil"
        /\ result'.Imgs \in SourceBatches
        /\ result'.Meta.CapturedAt = pull'.t
        /\ pull'.pc = "idle"
        /\ BufferUnchanged
        /\ UNCHANGED <<ev, acceptedStats, rejectedStats>> ]_vars

\* outside any window, with a batch waiting in the send queue, a pull that
\* is not from data management got the camera's two images
C18_Witness ==
  /\ ~pull.marked
  /\ pull.pc = "idle"
  /\ result.err = "nil"
  /\ Len(result.Imgs) = 2
  /\ DeliveredTimes(result) = {}
  /\ toSend # <<>>
  /\ ~IsWithinCaptureWindow(pull.t)

\* the name PopFirstToSend / PopAllToSend give an image of a batch
SentName(batch, k) == <<batch.Meta.CapturedAt, "_">> \o batch.Imgs[k]

\* C19: on a non-empty send queue PopFirstToSend returns the head batch and
\* leaves the rest of the queue in its order; PopAllToSend returns the images
\* of all queued batches in queue order and leaves the queue empty; neither
\* changes the ring buffer or the window.
C19_PopSemantics ==
  [][ /\ (lastOp'.op = "PopFirstToSend" /\ toSend # <<>>) =>
            /\ returned'.ok
            /\ returned'.Meta = toSend[1].Meta
            /\ Len(returned'.Imgs) = Len(toSend[1].Imgs)
            /\ \A k \in DOMAIN toSend[1].Imgs : returned'.Imgs[k] = SentName(toSend[1], k)
            /\ toSend' = SubSeq(toSend, 2, Len(toSend))
            /\ UNCHANGED <<ringBuffer, captureFrom, captureTill>>
      /\ (lastOp'.op = "PopAllToSend" /\ toSend # <<>>) =>
            /\ returned'.ok
            /\ \A i \in DOMAIN toSend : Len(toSend[i].Imgs) = 1
            /\ Len(returned'.Imgs) = Len(toSend)
            /\ \A i \in DOMAIN toSend : returned'.Imgs[i] = SentName(toSend[i], 1)
            /\ toSend' = <<>>
            /\ UNCHANGED <<ringBuffer, captureFrom, captureTill>> ]_vars

\* PopAllToSend returned two batches that were queued out of capture order,
\* in queue order, with the ring buffer still holding batches
C19_Witness ==
  /\ lastOp.op = "PopAllToSend"
  /\ returned.ok
  /\ Len(returned.Imgs) = 2
  /\ returned.Imgs[1][1] > returned.Imgs[2][1]
  /\ toSend = <<>>
  /\ ringBuffer # <<>>

\* the step of a batch pull that found no trigger outside the window and
\* goes to the send queue (lines 435-441)
BatchPullReachesQueue ==
  /\ PullStep
  /\ pull.pc = "eval" /\ ~pull.single
  /\ ev.pc = "done" /\ ev.verdict = "nosend"
  /\ pull.i = Len(pull.images)

SourceNames == UNION {{b[k] : k \in DOMAIN b} : b \in SourceBatches}

\* the step in which a data-management pull returns images
DataMgmtReturn ==
  /\ PullStep
  /\ pull'.pc = "idle" /\ pull'.marked
  /\ result'.err = "nil"

\* the batches that step popped from the send queue
PoppedBatches == SubSeq(toSend, 1, Len(toSend) - Len(toSend'))

\* C21: every image a data-management pull returns, popped from the send
\* queue or the current image of an open window, is named
\* <captured_at>_<original name> with the captured_at of its own batch and
\* one prefix only, and the batches held by the ring buffer and the send
\* queue keep their original names.
C21_TimestampNaming ==
  [][ /\ DataMgmtReturn =>
            /\ \A k \in DOMAIN result'.Imgs :
                 /\ Len(result'.Imgs[k]) = 3
                 /\ result'.Imgs[k][2] = "_"
                 /\ <<result'.Imgs[k][3]>> \in SourceNames
            /\ IF returned'.ok
               THEN /\ Len(result'.Imgs) = Len(PoppedBatches)
                    /\ \A i \in DOMAIN PoppedBatches :
                         result'.Imgs[i] = SentName(PoppedBatches[i], 1)
               ELSE /\ result'.Imgs # <<>>
                    /\ \A k \in DOMAIN result'.Imgs :
                         result'.Imgs[k][1] = result'.Meta.CapturedAt
      /\ \A i \in DOMAIN ringBuffer' : ringBuffer'[i].Imgs \in SourceBatches
      /\ \A i \in DOMAIN toSend' : toSend'[i].Imgs \in SourceBatches ]_vars

\* a batch pull returned two batches under their own timestamps while the
\* ring buffer still holds one of them under its original name
C21_Witness ==
  /\ pull.pc = "idle" /\ pull.marked
  /\ result.err = "nil"
  /\ Len(result.Imgs) = 2
  /\ result.Imgs[1][1] # result.Imgs[2][1]
  /\ \E i \in DOMAIN ringBuffer :
       /\ ringBuffer[i].Meta.CapturedAt = result.Imgs[1][1]
       /\ ringBuffer[i].Imgs = CameraImages

\* the step in which a batch pull whose image was accepted, and which found
\* ring buffer and send queue empty, returns
AcceptedOnEmptyBuffer ==
  /\ PullStep
  /\ pull.pc = "pop" /\ ~pull.single
  /\ ringBuffer = <<>> /\ toSend = <<>>

\* C22: a data-management Images() call whose fresh batch satisfies an
\* acceptor, outside any window and with an empty buffer, returns that fresh
\* batch, all of its images, with the batch's capture timestamp and no error.
C22_AcceptedFreshBatchReturned ==
  [][ AcceptedOnEmptyBuffer =>
        /\ result'.err = "nil"
        /\ Len(result'.Imgs) = Len(pull.images)
        /\ result'.Imgs \in {pull.images, timestampImagesToNames(pull.images, pull.t)}
        /\ result'.Meta.CapturedAt = pull.t ]_vars

\* the vision service entries of a configuration, the deprecated vision
\* field counting as one non-inhibiting service
EntriesOf(cfg) ==
  IF cfg.Vision # "" THEN <<[Vision |-> cfg.Vision, Inhibit |-> FALSE]>>
  ELSE cfg.VisionServices.list
IsInhibiting(vs) == vs.Inhibit
IsNotInhibiting(vs) == ~vs.Inhibit
NamesOf(entries) == [i \in DOMAIN entries |-> entries[i].Vision]

\* C23: Validate returns the camera, then the inhibiting vision services in
\* configured order, then the non-inhibiting ones in configured order, and
\* rejects a configuration with both vision and vision_services or neither.
C23_ValidateDependencies ==
  probe.kind = "validate" =>
    /\ probe.err = "nil" =>
         probe.deps = <<probe.cfg.Camera>>
                        \o NamesOf(SelectSeq(EntriesOf(probe.cfg), IsInhibiting))
                        \o NamesOf(SelectSeq(EntriesOf(probe.cfg), IsNotInhibiting))
    /\ (probe.cfg.Vision # "" /\ ~probe.cfg.VisionServices.nil) => probe.err # "nil"
    /\ (probe.cfg.Vision = "" /\ probe.cfg.VisionServices.nil) => probe.err # "nil"

\* an accepted configuration lists an accepting service before an inhibitor
C23_Witness ==
  /\ probe.kind = "validate"
  /\ probe.err = "nil"
  /\ probe.cfg.VisionServices.list =
       <<[Vision |-> "v1", Inhibit |-> FALSE], [Vision |-> "v2", Inhibit |-> TRUE]>>
  /\ probe.deps = <<"cam", "v2", "v1">>

\* timestamps IsWithinCaptureWindow can be asked about: the zero time and
\* every time up to the latest end of a window
Instants == ZeroTime .. (MaxOf(Times) + MaxOf(WindowChoices))

\* C24: IsWithinCaptureWindow(now) is true exactly when
\* captureFrom <= now <= captureTill, both ends included, in every reachable
\* window state, and StoreImages routes by the same predicate.
C24_WindowMembership ==
  \A now \in Instants :
    /\ IsWithinCaptureWindow(now) <=> (captureFrom <= now /\ now <= captureTill)
    /\ StoreInWindow(now, captureFrom, captureTill) <=> IsWithinCaptureWindow(now)

\* no trigger has moved the window yet
NoTriggerYet == captureFrom = ZeroTime /\ captureTill = ZeroTime

\* the step in which a data-management pull got its images from the camera
DataMgmtPullBegins ==
  /\ PullStep
  /\ pull.pc = "idle"
  /\ pull'.marked
  /\ result'.err # "camera"

\* C25: before the first trigger no window is active: for every timestamp,
\* the zero time of a camera that reports no capture time included,
\* IsWithinCaptureWindow is false, StoreImages does not put the batch into
\* the send queue, and a data-management pull runs the filter checks.
C25_InitiallyNoWindow ==
  [][ NoTriggerYet =>
        /\ \A now \in Instants : ~IsWithinCaptureWindow(now)
        /\ lastOp'.op = "StoreImages" => toSend' = toSend
        /\ DataMgmtPullBegins => pull'.pc = "eval" ]_vars

\* the last k elements of a sequence, all of it when it is shorter
LastN(s, k) == [i \in 1..Min(Len(s), k) |-> s[Len(s) - Min(Len(s), k) + i]]

\* a push into the ring buffer: AddToRingBuffer, or StoreImages outside the
\* window
IsPush(op) == op.op = "AddToRingBuffer" \/ (IsStore(op) /\ ~op.open)

\* C26: every push leaves in the ring buffer the last maxImages batches of
\* the old contents followed by the pushed batch, in insertion order, so that
\* after n pushes it holds the last min(n, maxImages) pushed batches whatever
\* their timestamps and whatever the window.
C26_FifoEviction ==
  [][ IsPush(lastOp') =>
        ringBuffer' = LastN(Append(ringBuffer, CachedData(CameraImages, lastOp'.t)),
                            maxImages) ]_vars

\* a push evicted the batch pushed first although it carries the latest
\* timestamp, from a full ring buffer, while a window was set
C26_Witness ==
  /\ IsPush(lastOp)
  /\ maxImages >= 2
  /\ Len(ringBuffer) = maxImages
  /\ captureTill # ZeroTime
  /\ \E t \in stored :
       /\ \A i \in DOMAIN ringBuffer : ringBuffer[i].Meta.CapturedAt < t
       /\ ringBuffer[Len(ringBuffer)].Meta.CapturedAt = lastOp.t

IsPop(op) == op.op \in {"PopFirstToSend", "PopAllToSend"}

AppendedBy == SubSeq(toSend', Len(toSend) + 1, Len(toSend'))

\* C28: right after MarkShouldSend every batch of the ring buffer with
\* captureFrom <= captured_at <= captureTill has its captured_at in the send
\* queue, and every batch the call appended is a batch of the ring buffer,
\* lies in that interval and was not in the send queue before.
C28_BackfillPostcondition ==
  [][ IsMark(lastOp') =>
        /\ \A i \in DOMAIN ringBuffer' :
             (/\ captureFrom' <= ringBuffer'[i].Meta.CapturedAt
              /\ ringBuffer'[i].Meta.CapturedAt <= captureTill')
               => ringBuffer'[i].Meta.CapturedAt \in TimesIn(toSend')
        /\ Len(toSend') >= Len(toSend)
        /\ \A k \in DOMAIN AppendedBy :
             /\ \E i \in DOMAIN ringBuffer : ringBuffer[i] = AppendedBy[k]
             /\ captureFrom' <= AppendedBy[k].Meta.CapturedAt
             /\ AppendedBy[k].Meta.CapturedAt <= captureTill'
             /\ AppendedBy[k].Meta.CapturedAt \notin TimesIn(toSend) ]_vars

\* a trigger queued the ring batches sitting on both ends of the window and
\* left out a batch outside it
C28_Witness ==
  /\ IsMark(lastOp)
  /\ captureFrom < captureTill
  /\ captureFrom \in TimesIn(ringBuffer) /\ captureFrom \in TimesIn(toSend)
  /\ captureTill \in TimesIn(ringBuffer) /\ captureTill \in TimesIn(toSend)
  /\ \E i \in DOMAIN ringBuffer :
       /\ ringBuffer[i].Meta.CapturedAt > captureTill
       /\ ringBuffer[i].Meta.CapturedAt \notin TimesIn(toSend)

\* C29: the batches MarkShouldSend appends to the send queue are in
\* ascending captured_at order, whatever their order in the ring buffer.
C29_BackfillAscending ==
  [][ IsMark(lastOp') =>
        \A k, l \in DOMAIN AppendedBy :
          k < l => AppendedBy[k].Meta.CapturedAt <= AppendedBy[l].Meta.CapturedAt ]_vars

C31_WildcardOnlyWithoutExact ==
  probe.kind # "none" =>
    /\ (Has(ProbedMap, probe.r.label) /\ ~(probe.r.score > Get(ProbedMap, probe.r.label)))
         => ~probe.out
    /\ ~Has(ProbedMap, probe.r.label)
         => (probe.out <=> (Has(ProbedMap, "*") /\ probe.r.score > Get(ProbedMap, "*")))

\* the step of a data-management pull whose fresh batch was captured inside
\* the window
InWindowPull == DataMgmtPullBegins /\ IsWithinCaptureWindow(pull'.t)

\* C32: inside the window a data-management pull queries no vision service
\* and changes neither window nor statistics; it returns the head or all of
\* a non-empty send queue, otherwise the fresh batch under timestamped names,
\* and never the no-data sentinel.
C32_InWindowPull ==
  [][ InWindowPull =>
        /\ pull'.pc = "idle" /\ ev' = ev
        /\ UNCHANGED <<acceptedStats, rejectedStats, captureFrom, captureTill, ringBuffer>>
        /\ result'.err = "nil"
        /\ IF toSend # <<>>
           THEN /\ toSend' \in {Tail(toSend), <<>>}
                /\ Len(result'.Imgs) = Len(PoppedBatches)
                /\ \A i \in DOMAIN PoppedBatches :
                     result'.Imgs[i] = SentName(PoppedBatches[i], 1)
                /\ result'.Meta = toSend[1].Meta
           ELSE /\ toSend' = <<>>
                /\ result'.Imgs \in {timestampImagesToNames(b, pull'.t) : b \in SourceBatches}
                /\ result'.Meta.CapturedAt = pull'.t ]_vars

\* a pull made at the end of the window found the queue empty and returned
\* both images of the fresh batch under timestamped names
C32_Witness ==
  /\ pull.pc = "idle" /\ pull.marked
  /\ pull.t = captureTill
  /\ IsPop(lastOp) /\ ~returned.ok
  /\ result.err = "nil"
  /\ Len(result.Imgs) = 2
  /\ result.Imgs[2] = <<pull.t, "_", "cam2">>

\* the step in which a pull outside the window applies its trigger
PullTriggers ==
  /\ PullStep
  /\ pull.pc = "eval"
  /\ ev.pc = "done" /\ ev.verdict = "send"

\* the step in which a pull outside the window reaches the send queue: after
\* its trigger, or after its last image was not accepted
PullReachesQueue ==
  /\ PullStep
  /\ \/ pull.pc = "pop"
     \/ /\ pull.pc = "eval"
        /\ ev.pc = "done" /\ ev.verdict = "nosend"
        /\ pull.i = Len(pull.images)

Outside(q, from, till) ==
  {i \in DOMAIN q : ~(from <= q[i].Meta.CapturedAt /\ q[i].Meta.CapturedAt <= till)}

\* C34: every batch appended to the send queue has its captured_at inside
\* the window [captureFrom, captureTill] in force when it is appended; and
\* after a single trigger at t every queued batch has captured_at in
\* [t - before, t + after] and no timestamp was queued twice.
C34_QueuedInsideWindow ==
  [][ /\ Outside(AppendedBy, captureFrom', captureTill') = {}
      /\ \A t \in Times :
           triggers' = {t} =>
             /\ Outside(toSend', t - windowSecondsBefore, t + windowSecondsAfter) = {}
             /\ \A u \in DOMAIN enq' : enq'[u] <= 1 ]_vars

\* the fields of ImageBuffer that ib.mu guards
Guarded == <<ringBuffer, toSend, captureFrom, captureTill>>

\* C35: the ring buffer, the send queue and the window bounds are read and
\* written only by the goroutine that holds the ImageBuffer mutex, inside one
\* method; the mutex is not held during a camera call or a vision-service
\* call; and each critical section of a pull (window check, trigger, pop)
\* ends by releasing the mutex, so a store or another pull can run between
\* two of them.
C35_LockDiscipline ==
  [][ /\ \A th \in Goroutines : (Th(th).pc \in Inside) <=> (threads.mu = th)
      /\ Guarded' # Guarded =>
           /\ threads.mu \in Goroutines
           /\ threads'.mu = "free"
           /\ \A th \in Goroutines \ {threads.mu} : Th(th)' = Th(th)
      /\ \A c \in Consumers :
           Th(c)'.inWindow # Th(c).inWindow => threads.mu = c
      /\ \A th \in Goroutines :
           (Th(th).pc \in {"idle", "eval"} /\ Th(th)' # Th(th)) =>
             (threads.mu # th /\ threads'.mu # th)
      /\ \A th \in Goroutines :
           (Th(th).pc \in Inside /\ Th(th)' # Th(th)) =>
             (threads'.mu = "free" /\ Th(th)'.pc \notin Inside) ]_vars

\* a pull found the window closed and waits to apply its trigger; meanwhile
\* another pull opened the window over the same instant and the background
\* worker is inside StoreImages
C35_Witness ==
  \E c \in Consumers :
    /\ Th(c).pc = "mark"
    /\ ~Th(c).inWindow
    /\ IsWithinCaptureWindow(Th(c).t)
    /\ threads.mu = Worker /\ Th(Worker).pc = "storing"

\* the sum of the counts of a breakdown map
RECURSIVE SumOver(_, _)
SumOver(breakdown, keys) ==
  IF keys = {} THEN 0
  ELSE LET k == CHOOSE x \in keys : TRUE
       IN breakdown[k] + SumOver(breakdown, keys \ {k})

\* C36: once the concurrent shouldSend evaluations have completed,
\* accepted.total + rejected.total equals the number of completed
\* evaluations and each total equals the sum of its breakdown counts: no
\* evaluation's increment is lost or counted twice.
C36_StatsCountEvaluations ==
  (\A c \in Consumers : Th(c).pc = "idle") =>
    /\ acceptedStats.total + rejectedStats.total = threads.evals
    /\ acceptedStats.total = SumOver(acceptedStats.breakdown, StatKeys)
    /\ rejectedStats.total = SumOver(rejectedStats.breakdown, StatKeys)

\* the send queue only grew at its tail, and a batch stored inside the
\* window is its new last entry
QueueExtended ==
  /\ Len(toSend') >= Len(toSend)
  /\ SubSeq(toSend', 1, Len(toSend)) = toSend
  /\ (lastOp'.op = "StoreImages" /\ lastOp'.open /\ lastOp' # lastOp) =>
       /\ Len(toSend') = Len(toSend) + 1
       /\ toSend'[Len(toSend')].Meta.CapturedAt = lastOp'.t

\* the head of the send queue was popped and handed to the caller
QueuePopped ==
  /\ IsPop(lastOp')
  /\ Len(toSend') < Len(toSend)
  /\ toSend' = SubSeq(toSend, Len(PoppedBatches) + 1, Len(toSend))
  /\ returned'.ok
  /\ returned'.Imgs = AllImages(PoppedBatches)
  /\ result' = [err |-> "nil", Imgs |-> returned'.Imgs, Meta |-> returned'.Meta]

\* C37: a batch leaves the send queue only in a pop that returns it to the
\* pulling caller, whatever the length of the queue; and while pulls keep
\* occurring and their camera and vision calls succeed, every batch in the
\* send queue eventually leaves it that way.
C37_EventualDelivery ==
  /\ [][QueueExtended \/ QueuePopped]_vars
  /\ \A t \in Times : (t \in TimesIn(toSend)) ~> (t \notin TimesIn(toSend))

\* a pull returned a batch popped from a queue that was longer than the
\* warning threshold 2 * maxImages
C37_Witness ==
  /\ IsPop(lastOp) /\ returned.ok
  /\ result.err = "nil" /\ result.Imgs = returned.Imgs
  /\ Len(returned.Imgs) + Len(toSend) > 2 * maxImages

\* the goroutines waiting in ib.mu.Lock()
Waiting == {th \in Goroutines : Th(th).pc \in AtLock}

\* C38: the mutex is held only by a goroutine inside the body of one
\* ImageBuffer method, a goroutine that calls a locking method does not hold
\* the mutex, and the goroutines are never all blocked on it; every store
\* and every pull that has started returns.
C38_DeadlockFree ==
  /\ [](/\ threads.mu \in Goroutines \cup {"free"}
        /\ threads.mu \in Goroutines => Th(threads.mu).pc \in Inside
        /\ \A th \in Waiting : threads.mu # th
        /\ Waiting = Goroutines => threads.mu = "free"
        /\ Waiting # {} => (threads.mu # "free" \/ \E th \in Waiting : ENABLED Lock(th)))
  /\ \A th \in Goroutines : (Th(th).pc # "idle") ~> (Th(th).pc = "idle")

\* the worker and a pull both wait for the mutex while another pull holds it
C38_Witness ==
  /\ threads.mu \in Consumers
  /\ Waiting = Goroutines \ {threads.mu}

\* a consumer in single mode returned from the pop of images()
SinglePopBy(c) ==
  /\ Th(c).pc = "popping" /\ Th(c).single
  /\ Th(c)'.pc = "idle"

\* C39: with concurrent pulls no batch is returned to two callers, and a
\* single-mode pull on a non-empty queue returns the head of the queue and
\* leaves the entries behind it in their order, so the batches a single-mode
\* caller receives follow the queue's order.
C39_OneCallerPerBatch ==
  /\ [](\A c \in Consumers, d \in Consumers :
          c # d => threads.got[c] \cap threads.got[d] = {})
  /\ [][\A c \in Consumers :
          (SinglePopBy(c) /\ toSend # <<>>) =>
            /\ toSend' = Tail(toSend)
            /\ result'.err = "nil"
            /\ result'.Imgs = <<SentName(Head(toSend), 1)>>
            /\ threads'.got[c] = threads.got[c] \cup {Head(toSend).Meta.CapturedAt}]_vars

====
